---- MODULE Spec2Model ----
(***************************************************************************)
(* A model of src/utils/mail.ts: the eleven public mail operations, each   *)
(* an async function that probes Mail access (one interpreter round trip), *)
(* validates its arguments, renders a script, hands it to the external     *)
(* interpreter (runAppleScript) and parses the reply.                      *)
(*                                                                         *)
(* Text is modelled by TLA+ strings, on which TLC evaluates Len, \o and    *)
(* SubSeq; the JavaScript string methods the code uses are operators over  *)
(* them.                                                                   *)
(***************************************************************************)
EXTENDS Integers, Sequences, FiniteSets, TLC

(***************************************************************************)
(* Program constants                                                       *)
(***************************************************************************)
\* CONFIG.MAX_EMAILS
MAX_EMAILS == 20

\* the record and field delimiters of getLatestMails
DELIM == "<<<EMAIL_SEP>>>"

FIELD_DELIM == "<<<FIELD>>>"

\* the fixed message requestMailAccess returns when the probe fails
REMEDIATION ==
  "Mail access is required but not granted. Please:\n1. Open System Settings > Privacy & Security > Automation\n2. Find your terminal/app in the list and enable 'Mail'\n3. Make sure Mail app is running and configured with at least one account\n4. Restart your terminal and try again"

(***************************************************************************)
(* JavaScript string methods                                               *)
(***************************************************************************)
\* the i-th character of s (1-based), as a one-character string
CharAt(s, i) == SubSeq(s, i, i)

\* s.startsWith(p)
StartsWith(s, p) == Len(s) >= Len(p) /\ SubSeq(s, 1, Len(p)) = p

\* s.substring(n): s without its first n characters
Substring(s, n) == SubSeq(s, n + 1, Len(s))

\* the positions at which d occurs in s
Occurrences(s, d) ==
  {i \in 1..(Len(s) - Len(d) + 1) : SubSeq(s, i, i + Len(d) - 1) = d}

\* s.indexOf(d), 1-based; 0 when d does not occur
IndexOf(s, d) ==
  LET occ == Occurrences(s, d)
  IN  IF occ = {} THEN 0 ELSE CHOOSE i \in occ : \A j \in occ : i <= j

\* s.includes(d)
Includes(s, d) == Len(d) = 0 \/ Occurrences(s, d) # {}

\* s.split(d) for a non-empty separator d: the pieces between the leftmost
\* non-overlapping occurrences of d, empty pieces kept
RECURSIVE Split(_, _)
Split(s, d) ==
  LET i == IndexOf(s, d)
  IN  IF i = 0 THEN <<s>>
      ELSE <<SubSeq(s, 1, i - 1)>> \o Split(Substring(s, i + Len(d) - 1), d)

\* the characters String.prototype.trim removes (those the inputs can hold)
WhiteSpace == {" ", "\t", "\n", "\r"}

RECURSIVE TrimStart(_)
TrimStart(s) ==
  IF Len(s) > 0 /\ CharAt(s, 1) \in WhiteSpace THEN TrimStart(Substring(s, 1)) ELSE s

RECURSIVE TrimEnd(_)
TrimEnd(s) ==
  IF Len(s) > 0 /\ CharAt(s, Len(s)) \in WhiteSpace
  THEN TrimEnd(SubSeq(s, 1, Len(s) - 1)) ELSE s

\* s.trim()
Trim(s) == TrimEnd(TrimStart(s))

\* s.replace(/c/g, r) for a one-character pattern c
RECURSIVE ReplaceAll(_, _, _)
ReplaceAll(s, c, r) ==
  IF Len(s) = 0 THEN ""
  ELSE (IF CharAt(s, 1) = c THEN r ELSE CharAt(s, 1)) \o ReplaceAll(Substring(s, 1), c, r)

Upper == "ABCDEFGHIJKLMNOPQRSTUVWXYZ"

Lower == "abcdefghijklmnopqrstuvwxyz"

\* one character lower-cased
LowerChar(ch) ==
  LET i == IndexOf(Upper, ch) IN IF i = 0 THEN ch ELSE CharAt(Lower, i)

\* s.toLowerCase()
RECURSIVE ToLowerCase(_)
ToLowerCase(s) ==
  IF Len(s) = 0 THEN "" ELSE LowerChar(CharAt(s, 1)) \o ToLowerCase(Substring(s, 1))

\* a JavaScript string is truthy when it is not empty
Truthy(s) == s # ""

\* xs.filter(Boolean) on a list of strings
FilterBoolean(xs) == SelectSeq(xs, Truthy)

\* xs.map((s) => s.trim())
MapTrim(xs) == [i \in 1..Len(xs) |-> Trim(xs[i])]

(***************************************************************************)
(* State.  A call is one invocation of a public operation; calls are       *)
(* numbered by CallIds and each is an async function suspended at its      *)
(* awaits.                                                                 *)
(***************************************************************************)
VARIABLES
  pc,         \* pc[c]: "idle", "probe" (awaiting the access probe),
              \*        "script" (awaiting the operation's script), "done"
  call,       \* call[c]: the operation and its arguments
  probe,      \* probe[c]: how the call's access probe ended: "pending", "ok", "raised"
  access,     \* access[c]: accessResult.hasAccess of the call: "unknown", "granted", "denied"
  script,     \* script[c]: the script the call last handed to the interpreter
  invoked,    \* invoked[c]: the scripts the call has handed to runAppleScript
  reply,      \* reply[c]: what the interpreter answered to the call's script
  result,     \* result[c]: what the call returned, or the error it rejected with
  clock,      \* clock[c]: the call's last reading of Date.now() / new Date()
  tmpFile,    \* tmpFile[c]: the body file the call created ("" when none)
  files,      \* the files under /tmp: name -> content
  prevDenied  \* whether the call that completed last was denied access

vars ==
  <<pc, call, probe, access, script, invoked, reply, result, clock, tmpFile, files, prevDenied>>

CallIds == {1, 2}

(***************************************************************************)
(* Values                                                                  *)
(***************************************************************************)
\* what runAppleScript may do: raise, or answer a text, a list or another value
Raise(m) == [kind |-> "raise", text |-> m, items |-> <<>>, recs |-> <<>>]

Text(s) == [kind |-> "text", text |-> s, items |-> <<>>, recs |-> <<>>]

List(xs) == [kind |-> "list", text |-> "", items |-> xs, recs |-> <<>>]

Other == [kind |-> "other", text |-> "", items |-> <<>>, recs |-> <<>>]

NoReply == [kind |-> "none", text |-> "", items |-> <<>>, recs |-> <<>>]

\* an entry of a list reply: a text, or a value of another type
Item(s) == [isText |-> TRUE, text |-> s]

NonText == [isText |-> FALSE, text |-> ""]

\* an optional argument (cc, bcc): absent, or a text
Absent == <<>>

Given(s) == <<s>>

NoArgs ==
  [op |-> "none", limit |-> 0, searchTerm |-> "", to |-> "", subject |-> "",
   body |-> "", cc |-> Absent, bcc |-> Absent, account |-> "", sender |-> ""]

\* what a call hands back to its caller
NoResult ==
  [kind |-> "none", list |-> <<>>, text |-> "", success |-> FALSE,
   replied |-> FALSE, replySentAt |-> <<>>, message |-> ""]

ReturnList(xs) == [NoResult EXCEPT !.kind = "return", !.list = xs]

ReturnText(s) == [NoResult EXCEPT !.kind = "return", !.text = s]

ReturnOutcome(ok, m) == [NoResult EXCEPT !.kind = "return", !.success = ok, !.message = m]

ReturnReplied(r, at, m) ==
  [NoResult EXCEPT !.kind = "return", !.replied = r, !.replySentAt = at, !.message = m]

Reject(m) == [NoResult EXCEPT !.kind = "reject", !.message = m]

\* a rendered script: its template, the numeric bound and the text literals
\* interpolated into it, in template order
Script(name, limit, lits) == [name |-> name, limit |-> limit, lits |-> lits]

NoScript == Script("none", 0, <<>>)

ListOps ==
  {"getUnreadMails", "searchMails", "getMailboxes", "getAccounts",
   "getMailboxesForAccount", "getLatestMails"}

OutcomeOps == {"archiveEmail", "deleteEmail", "markAsRead"}

Ops == ListOps \cup OutcomeOps \cup {"sendMail", "checkIfReplied"}

(***************************************************************************)
(* The access gate                                                         *)
(***************************************************************************)
\* checkMailAccess: true iff the probe script ran without raising
checkMailAccess(probeOk) == probeOk

\* requestMailAccess with the bug of keeping a denial from the call before
requestMailAccess_cached(probeOk) ==
  IF checkMailAccess(probeOk) /\ ~prevDenied
  THEN [hasAccess |-> TRUE, message |-> "Mail access is already granted."]
  ELSE [hasAccess |-> FALSE, message |-> REMEDIATION]

\* requestMailAccess, given the outcome of the probe
requestMailAccess(probeOk) ==
  IF checkMailAccess(probeOk)
  THEN [hasAccess |-> TRUE, message |-> "Mail access is already granted."]
  ELSE [hasAccess |-> FALSE, message |-> REMEDIATION]

(***************************************************************************)
(* The catch block of each operation: what the operation does with an      *)
(* error of message m thrown inside its try                                *)
(***************************************************************************)
\* the catch blocks with the bug of re-throwing in every operation, as
\* sendMail's does
Caught_rethrows(op, m) == Reject("Error: " \o m)

Caught(op, m) ==
  CASE op \in ListOps -> ReturnList(<<>>)
    [] op = "sendMail" -> Reject("Error sending email: " \o m)
    [] op = "archiveEmail" -> ReturnOutcome(FALSE, "Error archiving email: " \o m)
    [] op = "deleteEmail" -> ReturnOutcome(FALSE, "Error deleting email: " \o m)
    [] op = "markAsRead" -> ReturnOutcome(FALSE, "Error marking email as read: " \o m)
    [] op = "checkIfReplied" -> ReturnReplied(FALSE, <<>>, "Error checking for reply: " \o m)

(***************************************************************************)
(* Script building                                                         *)
(***************************************************************************)
\* the first argument, whatever the second
Min_first(a, b) == a

\* Math.min
Min(a, b) == IF a <= b THEN a ELSE b

\* s.replace(/"/g, '\\"'): a backslash before every double quote
EscapeQuotes(s) == ReplaceAll(s, "\"", "\\\"")

\* s.replace(/\\/g, '\\\\'): every backslash doubled
EscapeBackslashes(s) == ReplaceAll(s, "\\", "\\\\")

\* !s || !s.trim(), and equally !s || s.trim() === ""
Blank(s) == s = "" \/ Trim(s) = ""

\* the four prefixes as they are spelled, and the white space after one
StripReplyPrefix_asSpelled(s) ==
  IF StartsWith(s, "Re:") \/ StartsWith(s, "RE:") THEN TrimStart(Substring(s, 3))
  ELSE IF StartsWith(s, "Fwd:") \/ StartsWith(s, "FWD:") THEN TrimStart(Substring(s, 4))
  ELSE s

\* s.replace(/^(Re:|RE:|Fwd:|FWD:)\s*/i, ''): one leading reply or forward
\* prefix, in any letter case, and the white space after it
StripReplyPrefix(s) ==
  IF StartsWith(ToLowerCase(s), "re:") THEN TrimStart(Substring(s, 3))
  ELSE IF StartsWith(ToLowerCase(s), "fwd:") THEN TrimStart(Substring(s, 4))
  ELSE s

\* the first ">" of s after position i; 0 when there is none
NextGt(s, i) ==
  LET gts == {j \in (i + 1)..Len(s) : CharAt(s, j) = ">"}
  IN  IF gts = {} THEN 0 ELSE CHOOSE j \in gts : \A k \in gts : j <= k

\* (originalSender.match(/<([^>]+)>/) || [null, originalSender])[1] || originalSender
ExtractEmail(s) ==
  LET starts == {i \in 1..Len(s) : CharAt(s, i) = "<" /\ NextGt(s, i) >= i + 2}
  IN  IF starts = {} THEN s
      ELSE LET i == CHOOSE k \in starts : \A j \in starts : k <= j
           IN  SubSeq(s, i + 1, NextGt(s, i) - 1)

\* the name of the body file of a sendMail call that reads Date.now() = t
TmpName(t) == "/tmp/email-body-" \o ToString(t) \o ".txt"

\* new Date().toString() at clock reading t
DateString(t) == "Date(" \o ToString(t) \o ")"

\* the probe script of checkMailAccess
ProbeScript == Script("checkMailAccess", 0, <<>>)

(***************************************************************************)
(* The operations, each in two parts: Begin is the code between the access *)
(* check and the await of the operation's script, End the code after it.   *)
(* Begin yields Done(r) when the call ends without a script, Await(s) when *)
(* script s is handed to the interpreter.                                  *)
(***************************************************************************)
Done(r) == [pc |-> "done", result |-> r, script |-> NoScript, write |-> FALSE]

Await(s) == [pc |-> "script", result |-> NoResult, script |-> s, write |-> FALSE]

\* sendMail writes its body file before it hands the script over
AwaitWritten(s) == [pc |-> "script", result |-> NoResult, script |-> s, write |-> TRUE]

getUnreadMailsBegin(a) ==
  Await(Script("getUnreadMails", Min(a.limit, MAX_EMAILS), <<>>))

getUnreadMailsEnd(a, o) ==
  IF o.kind = "text"
  THEN (IF o.text # "" /\ StartsWith(o.text, "SUCCESS:") THEN ReturnList(<<>>) ELSE ReturnList(<<>>))
  ELSE IF o.kind = "other" THEN ReturnList(<<>>)
  ELSE Caught("getUnreadMails", "result.startsWith is not a function")

\* searchMails with the bug of no check of the search term
searchMailsBegin_unchecked(a) ==
  Await(Script("searchMails", Min(a.limit, MAX_EMAILS), <<ToLowerCase(a.searchTerm)>>))

searchMailsBegin(a) ==
  IF Blank(a.searchTerm) THEN Done(ReturnList(<<>>))
  ELSE Await(Script("searchMails", Min(a.limit, MAX_EMAILS), <<ToLowerCase(a.searchTerm)>>))

searchMailsEnd(a, o) ==
  IF o.kind = "text"
  THEN (IF o.text # "" /\ StartsWith(o.text, "SUCCESS:") THEN ReturnList(<<>>) ELSE ReturnList(<<>>))
  ELSE IF o.kind = "other" THEN ReturnList(<<>>)
  ELSE Caught("searchMails", "result.startsWith is not a function")

\* sendMail with the bug of no check of the subject
sendMailBegin_subjectUnchecked(a, t, fsOk) ==
  IF Blank(a.to) THEN Done(Caught("sendMail", "To address is required"))
  ELSE IF Blank(a.body) THEN Done(Caught("sendMail", "Email body is required"))
  ELSE IF ~fsOk THEN Done(Caught("sendMail", "ENOSPC: no space left on device, write"))
  ELSE AwaitWritten(Script("sendMail", 0, <<TmpName(t), EscapeQuotes(a.subject), EscapeQuotes(a.to)>>))

\* fsOk: whether fs.writeFileSync succeeds
sendMailBegin(a, t, fsOk) ==
  IF Blank(a.to) THEN Done(Caught("sendMail", "To address is required"))
  ELSE IF Blank(a.subject) THEN Done(Caught("sendMail", "Subject is required"))
  ELSE IF Blank(a.body) THEN Done(Caught("sendMail", "Email body is required"))
  ELSE IF ~fsOk THEN Done(Caught("sendMail", "ENOSPC: no space left on device, write"))
  ELSE AwaitWritten(
         Script("sendMail", 0,
                <<TmpName(t), EscapeQuotes(a.subject), EscapeQuotes(a.to)>>
                \o (IF a.cc # Absent /\ a.cc[1] # "" THEN <<EscapeQuotes(a.cc[1])>> ELSE <<>>)
                \o (IF a.bcc # Absent /\ a.bcc[1] # "" THEN <<EscapeQuotes(a.bcc[1])>> ELSE <<>>)))

\* sendMail with the bug of accepting any reply that starts with "SUCCESS"
sendMailEnd_prefix(a, o) ==
  IF o.kind = "text" /\ StartsWith(o.text, "SUCCESS")
  THEN ReturnText("Email sent to " \o a.to \o " with subject \"" \o a.subject \o "\"")
  ELSE Caught("sendMail", "Failed to send email")

sendMailEnd(a, o) ==
  IF o.kind = "text" /\ o.text = "SUCCESS"
  THEN ReturnText("Email sent to " \o a.to \o " with subject \"" \o a.subject \o "\"")
  ELSE Caught("sendMail", "Failed to send email")

\* result.filter((name) => name && typeof name === "string")
IsName(item) == item.isText /\ item.text # ""

NamesOf(items) ==
  LET kept == SelectSeq(items, IsName) IN [i \in 1..Len(kept) |-> kept[i].text]

getMailboxesBegin(a) == Await(Script("getMailboxes", 0, <<>>))

getMailboxesEnd(a, o) ==
  IF o.kind = "list" THEN ReturnList(NamesOf(o.items))
  ELSE IF o.kind = "text" /\ Trim(o.text) # ""
  THEN ReturnList(FilterBoolean(MapTrim(Split(o.text, ","))))
  ELSE ReturnList(<<>>)

getAccountsBegin(a) == Await(Script("getAccounts", 0, <<>>))

getAccountsEnd(a, o) ==
  IF o.kind = "list" THEN ReturnList(NamesOf(o.items))
  ELSE IF o.kind = "text" /\ Trim(o.text) # ""
  THEN ReturnList(FilterBoolean(MapTrim(Split(o.text, ","))))
  ELSE ReturnList(<<>>)

getMailboxesForAccountBegin(a) ==
  IF Blank(a.account) THEN Done(ReturnList(<<>>))
  ELSE Await(Script("getMailboxesForAccount", 0, <<EscapeQuotes(a.account)>>))

getMailboxesForAccountEnd(a, o) ==
  IF o.kind = "list" THEN ReturnList(NamesOf(o.items)) ELSE ReturnList(<<>>)

getLatestMailsBegin(a) ==
  Await(Script("getLatestMails", Min(a.limit, MAX_EMAILS), <<EscapeQuotes(a.account)>>))

\* x || d
OrElse(x, d) == IF x # "" THEN x ELSE d

\* the EmailMessage pushed for a record of at least 4 fields, at clock reading t
EmailMessage(fields, account, t) ==
  [subject |-> OrElse(fields[1], "No subject"),
   sender |-> OrElse(fields[2], "Unknown sender"),
   dateSent |-> OrElse(fields[3], DateString(t)),
   isRead |-> (fields[4] = "true"),
   content |-> IF Len(fields) >= 5 THEN OrElse(fields[5], "[Content not available]")
               ELSE "[Content not available]",
   mailbox |-> account \o " - INBOX"]

HasFourFields(fields) == Len(fields) >= 4

getLatestMailsEnd(a, o, t) ==
  IF o.kind # "text" THEN ReturnList(<<>>)
  ELSE IF StartsWith(o.text, "ERROR:") THEN Caught("getLatestMails", Substring(o.text, 6))
  ELSE LET emailStrings == FilterBoolean(Split(o.text, DELIM))
           fields == [i \in 1..Len(emailStrings) |-> Split(emailStrings[i], FIELD_DELIM)]
           kept == SelectSeq(fields, HasFourFields)
       IN  ReturnList([i \in 1..Len(kept) |-> EmailMessage(kept[i], a.account, t)])

\* the three literals archiveEmail, deleteEmail and markAsRead interpolate
archiveEmailBegin(a) ==
  Await(Script("archiveEmail", 0,
               <<EscapeQuotes(a.account), EscapeQuotes(a.account),
                 EscapeBackslashes(EscapeQuotes(a.subject)), EscapeQuotes(a.sender)>>))

\* archiveEmail with the bug of keeping the "ERROR:" prefix in the message
archiveEmailEnd_prefixKept(a, o) ==
  IF o.kind = "text" /\ StartsWith(o.text, "SUCCESS:") THEN ReturnOutcome(TRUE, Substring(o.text, 8))
  ELSE IF o.kind = "text" /\ StartsWith(o.text, "ERROR:") THEN ReturnOutcome(FALSE, o.text)
  ELSE ReturnOutcome(FALSE, "Unknown response from Mail")

archiveEmailEnd(a, o) ==
  IF o.kind = "text" /\ StartsWith(o.text, "SUCCESS:") THEN ReturnOutcome(TRUE, Substring(o.text, 8))
  ELSE IF o.kind = "text" /\ StartsWith(o.text, "ERROR:") THEN ReturnOutcome(FALSE, Substring(o.text, 6))
  ELSE ReturnOutcome(FALSE, "Unknown response from Mail")

deleteEmailBegin(a) ==
  Await(Script("deleteEmail", 0,
               <<EscapeQuotes(a.account),
                 EscapeBackslashes(EscapeQuotes(a.subject)), EscapeQuotes(a.sender)>>))

deleteEmailEnd(a, o) ==
  IF o.kind = "text" /\ StartsWith(o.text, "SUCCESS:") THEN ReturnOutcome(TRUE, Substring(o.text, 8))
  ELSE IF o.kind = "text" /\ StartsWith(o.text, "ERROR:") THEN ReturnOutcome(FALSE, Substring(o.text, 6))
  ELSE ReturnOutcome(FALSE, "Unknown response from Mail")

markAsReadBegin(a) ==
  Await(Script("markAsRead", 0,
               <<EscapeQuotes(a.account),
                 EscapeBackslashes(EscapeQuotes(a.subject)), EscapeQuotes(a.sender)>>))

markAsReadEnd(a, o) ==
  IF o.kind = "text" /\ StartsWith(o.text, "SUCCESS:") THEN ReturnOutcome(TRUE, Substring(o.text, 8))
  ELSE IF o.kind = "text" /\ StartsWith(o.text, "ERROR:") THEN ReturnOutcome(FALSE, Substring(o.text, 6))
  ELSE ReturnOutcome(FALSE, "Unknown response from Mail")

checkIfRepliedBegin(a) ==
  Await(Script("checkIfReplied", 0,
               <<EscapeQuotes(a.account),
                 EscapeBackslashes(EscapeQuotes(StripReplyPrefix(a.subject))),
                 EscapeQuotes(ToLowerCase(ExtractEmail(a.sender)))>>))

checkIfRepliedEnd(a, o) ==
  IF o.kind = "text" /\ StartsWith(o.text, "REPLIED:")
  THEN ReturnReplied(TRUE, <<Substring(o.text, 8)>>, "Reply found")
  ELSE IF o.kind = "text" /\ o.text = "NOREPLYFOUND" THEN ReturnReplied(FALSE, <<>>, "No reply found")
  ELSE IF o.kind = "text" /\ StartsWith(o.text, "ERROR:")
  THEN ReturnReplied(FALSE, <<>>, Substring(o.text, 6))
  ELSE ReturnReplied(FALSE, <<>>, "Unknown response from Mail")

\* the code of operation a.op from the access check to its await
Begin(a, t, fsOk) ==
  CASE a.op = "getUnreadMails" -> getUnreadMailsBegin(a)
    [] a.op = "searchMails" -> searchMailsBegin(a)
    [] a.op = "sendMail" -> sendMailBegin(a, t, fsOk)
    [] a.op = "getMailboxes" -> getMailboxesBegin(a)
    [] a.op = "getAccounts" -> getAccountsBegin(a)
    [] a.op = "getMailboxesForAccount" -> getMailboxesForAccountBegin(a)
    [] a.op = "getLatestMails" -> getLatestMailsBegin(a)
    [] a.op = "archiveEmail" -> archiveEmailBegin(a)
    [] a.op = "deleteEmail" -> deleteEmailBegin(a)
    [] a.op = "markAsRead" -> markAsReadBegin(a)
    [] a.op = "checkIfReplied" -> checkIfRepliedBegin(a)

\* the code of operation a.op after the interpreter answered o (not a raise)
End(a, o, t) ==
  CASE a.op = "getUnreadMails" -> getUnreadMailsEnd(a, o)
    [] a.op = "searchMails" -> searchMailsEnd(a, o)
    [] a.op = "sendMail" -> sendMailEnd(a, o)
    [] a.op = "getMailboxes" -> getMailboxesEnd(a, o)
    [] a.op = "getAccounts" -> getAccountsEnd(a, o)
    [] a.op = "getMailboxesForAccount" -> getMailboxesForAccountEnd(a, o)
    [] a.op = "getLatestMails" -> getLatestMailsEnd(a, o, t)
    [] a.op = "archiveEmail" -> archiveEmailEnd(a, o)
    [] a.op = "deleteEmail" -> deleteEmailEnd(a, o)
    [] a.op = "markAsRead" -> markAsReadEnd(a, o)
    [] a.op = "checkIfReplied" -> checkIfRepliedEnd(a, o)

(***************************************************************************)
(* The file system under /tmp: a set of [name, content], one per name      *)
(***************************************************************************)
\* fs.writeFileSync(name, content)
WriteFile(fs, name, content) ==
  {f \in fs : f.name # name} \cup {[name |-> name, content |-> content]}

\* fs.unlinkSync(name) inside try/catch: removes the file, no effect when absent
Unlink(fs, name) == {f \in fs : f.name # name}

Exists(fs, name) == \E f \in fs : f.name = name

(***************************************************************************)
(* Actions                                                                 *)
(***************************************************************************)
Init ==
  /\ pc = [c \in CallIds |-> "idle"]
  /\ call = [c \in CallIds |-> NoArgs]
  /\ probe = [c \in CallIds |-> "pending"]
  /\ access = [c \in CallIds |-> "unknown"]
  /\ script = [c \in CallIds |-> NoScript]
  /\ invoked = [c \in CallIds |-> <<>>]
  /\ reply = [c \in CallIds |-> NoReply]
  /\ result = [c \in CallIds |-> NoResult]
  /\ clock = [c \in CallIds |-> 0]
  /\ tmpFile = [c \in CallIds |-> ""]
  /\ files = {}
  /\ prevDenied = FALSE

\* Call with the bug of probing twice (the operation calling checkMailAccess
\* itself before requestMailAccess does)
Call_probesTwice(c, a) ==
  /\ pc[c] = "idle"
  /\ pc' = [pc EXCEPT ![c] = "probe"]
  /\ call' = [call EXCEPT ![c] = a]
  /\ script' = [script EXCEPT ![c] = ProbeScript]
  /\ invoked' = [invoked EXCEPT ![c] = <<ProbeScript.name, ProbeScript.name>>]
  /\ UNCHANGED <<probe, access, reply, result, clock, tmpFile, files, prevDenied>>

\* The caller calls operation a.op with arguments a.  Every operation starts
\* with requestMailAccess, which awaits the probe script of checkMailAccess.
Call(c, a) ==
  /\ pc[c] = "idle"
  /\ pc' = [pc EXCEPT ![c] = "probe"]
  /\ call' = [call EXCEPT ![c] = a]
  /\ script' = [script EXCEPT ![c] = ProbeScript]
  /\ invoked' = [invoked EXCEPT ![c] = <<ProbeScript.name>>]
  /\ UNCHANGED <<probe, access, reply, result, clock, tmpFile, files, prevDenied>>

\* The probe returns (probeOk) or raises; the operation runs on to its next
\* await or to its end.  t is what Date.now() reads, fsOk whether the body
\* file can be written; only sendMail uses them.
ProbeReturn(c, probeOk, t, fsOk) ==
  /\ pc[c] = "probe"
  /\ LET a == call[c]
         accessResult == requestMailAccess(probeOk)
         b == IF accessResult.hasAccess THEN Begin(a, t, fsOk)
              ELSE Done(Caught(a.op, accessResult.message))
     IN  /\ probe' = [probe EXCEPT ![c] = IF probeOk THEN "ok" ELSE "raised"]
         /\ access' = [access EXCEPT ![c] = IF accessResult.hasAccess THEN "granted" ELSE "denied"]
         /\ pc' = [pc EXCEPT ![c] = b.pc]
         /\ result' = [result EXCEPT ![c] = b.result]
         /\ script' = [script EXCEPT ![c] = IF b.pc = "script" THEN b.script ELSE @]
         /\ invoked' = [invoked EXCEPT ![c] = IF b.pc = "script" THEN Append(@, b.script.name) ELSE @]
         /\ clock' = [clock EXCEPT ![c] = IF b.write THEN t ELSE @]
         /\ tmpFile' = [tmpFile EXCEPT ![c] = IF b.write THEN TmpName(t) ELSE @]
         /\ files' = IF b.write THEN WriteFile(files, TmpName(t), Trim(a.body)) ELSE files
  /\ UNCHANGED <<call, reply, prevDenied>>

\* The interpreter answers the operation's script with o: a raise lands in
\* the operation's catch block (sendMail has not unlinked its body file
\* then), any other answer is parsed.  t is what new Date() reads; only
\* getLatestMails uses it.
ScriptReturn(c, o, t) ==
  /\ pc[c] = "script"
  /\ LET a == call[c]
     IN  /\ result' = [result EXCEPT ![c] = IF o.kind = "raise" THEN Caught(a.op, o.text)
                                            ELSE End(a, o, t)]
         /\ files' = IF a.op = "sendMail" /\ o.kind # "raise" THEN Unlink(files, tmpFile[c])
                     ELSE files
  /\ pc' = [pc EXCEPT ![c] = "done"]
  /\ reply' = [reply EXCEPT ![c] = o]
  /\ UNCHANGED <<call, probe, access, script, invoked, clock, tmpFile, prevDenied>>

\* The caller takes the result; the call's locals are gone.
Return(c) ==
  /\ pc[c] = "done"
  /\ prevDenied' = (access[c] = "denied")
  /\ pc' = [pc EXCEPT ![c] = "idle"]
  /\ call' = [call EXCEPT ![c] = NoArgs]
  /\ probe' = [probe EXCEPT ![c] = "pending"]
  /\ access' = [access EXCEPT ![c] = "unknown"]
  /\ script' = [script EXCEPT ![c] = NoScript]
  /\ invoked' = [invoked EXCEPT ![c] = <<>>]
  /\ reply' = [reply EXCEPT ![c] = NoReply]
  /\ result' = [result EXCEPT ![c] = NoResult]
  /\ clock' = [clock EXCEPT ![c] = 0]
  /\ tmpFile' = [tmpFile EXCEPT ![c] = ""]
  /\ UNCHANGED files

(***************************************************************************)
(* Inputs: the arguments callers pass and the answers the interpreter      *)
(* gives                                                                   *)
(***************************************************************************)
\* longest free text drawn from Alphabet
MaxLen == 2

\* most records in a delimited reply built from SampleRecords
MaxRecords == 2

\* most entries in a list reply
MaxNames == 2

Alphabet == {"a", " ", "\"", "\\"}

RECURSIVE Strs(_)
Strs(n) ==
  IF n = 0 THEN {""}
  ELSE LET shorter == Strs(n - 1) IN shorter \cup {s \o ch : s \in shorter, ch \in Alphabet}

Texts == Strs(MaxLen)

\* sequences over S of length at most n
RECURSIVE SeqsUpTo(_, _)
SeqsUpTo(S, n) ==
  IF n = 0 THEN {<<>>}
  ELSE LET shorter == SeqsUpTo(S, n - 1) IN shorter \cup {Append(xs, x) : xs \in shorter, x \in S}

Limits == {-1, 0, 5, MAX_EMAILS, MAX_EMAILS + 1, 5 * MAX_EMAILS}

Accounts == {"Work", "My \"Box\""}

Senders == {"a@b.c", "Ann <A@b.c>"}

Optionals == {Absent, Given(""), Given("c@d.e")}

\* empty and white-space-only texts
Blanks == {"", " ", " \n\t"}

\* readings of Date.now()
Times == {1000, 1001}

\* a sendMail call whose arguments pass validation; the calls below vary it
ValidMail ==
  [NoArgs EXCEPT !.op = "sendMail", !.to = "a@b.c", !.subject = "Hi \"x\"", !.body = " hi\n"]

SendInputs ==
  {[ValidMail EXCEPT !.to = s] : s \in Texts}
  \cup {[ValidMail EXCEPT !.subject = s] : s \in Texts}
  \cup {[ValidMail EXCEPT !.to = to, !.subject = su, !.body = bo] :
          to \in Blanks \cup {"a@b.c"}, su \in Blanks \cup {"Hi"}, bo \in Blanks \cup {"hi"}}
  \cup {[ValidMail EXCEPT !.cc = cc, !.bcc = bcc] : cc \in Optionals, bcc \in Optionals}

\* a call of an operation that looks a message up by account, subject and sender
Lookup(o) ==
  [NoArgs EXCEPT !.op = o, !.account = "Work", !.subject = "Re: Plan", !.sender = "a@b.c"]

\* reply and forward prefixes in several letter cases
ReplyPrefixes == {"Re:", "RE:", "re:", "rE:", "Fwd:", "FWD:", "fwd:", "fWD:"}

\* what may stand between the prefix and the rest of the subject
AfterColon == {"", " ", "  ", " \t"}

\* subjects without a leading prefix; a prefix may stand further in
Rests == {"Project update", "Re: Plan", "Done (Fwd: x)"}

Unprefixed == {"Project update", "Status Re: Plan", " Re: Plan", "Re Plan", "Fw: Plan", ""}

ReplySubjects == {p \o w \o r : p \in ReplyPrefixes, w \in AfterColon, r \in Rests} \cup Unprefixed

LookupInputs ==
  {[Lookup(o) EXCEPT !.subject = s] : o \in OutcomeOps \cup {"checkIfReplied"}, s \in Texts}
  \cup {[Lookup("checkIfReplied") EXCEPT !.subject = s] : s \in ReplySubjects}
  \cup {[Lookup(o) EXCEPT !.account = ac, !.sender = se] :
          o \in OutcomeOps \cup {"checkIfReplied"}, ac \in Accounts, se \in Senders}

CallInputs ==
  {[NoArgs EXCEPT !.op = "getUnreadMails", !.limit = n] : n \in Limits}
  \cup {[NoArgs EXCEPT !.op = "searchMails", !.searchTerm = s, !.limit = 5] : s \in Texts \cup Blanks}
  \cup {[NoArgs EXCEPT !.op = "searchMails", !.searchTerm = "Mail", !.limit = n] : n \in Limits}
  \cup SendInputs
  \cup {[NoArgs EXCEPT !.op = o] : o \in {"getMailboxes", "getAccounts"}}
  \cup {[NoArgs EXCEPT !.op = "getMailboxesForAccount", !.account = s] :
          s \in Texts \cup Blanks \cup Accounts}
  \cup {[NoArgs EXCEPT !.op = "getLatestMails", !.account = ac, !.limit = n] :
          ac \in Accounts, n \in {5, MAX_EMAILS + 1}}
  \cup LookupInputs

\* s1, s2, ... joined by d
RECURSIVE Join(_, _)
Join(xs, d) ==
  IF xs = <<>> THEN ""
  ELSE IF Len(xs) = 1 THEN xs[1]
  ELSE xs[1] \o d \o Join(Tail(xs), d)

\* records as the getLatestMails script sends them: fields joined by
\* FIELD_DELIM, each record followed by DELIM (trailing), or records joined
\* by DELIM
Encode(recs, trailing) ==
  LET rows == [i \in 1..Len(recs) |-> Join(recs[i], FIELD_DELIM)]
  IN  IF trailing THEN Join([i \in 1..Len(rows) |-> rows[i] \o DELIM], "")
      ELSE Join(rows, DELIM)

SampleRecords ==
  {<<"Hi", "a@b.c", "Mon", "true", "text">>,
   <<"", "", "", "false", "">>,
   <<"Hi", "a@b.c", "Mon", "true">>,
   <<"Hi", "a@b.c", "Mon">>,
   <<"">>,
   <<"ERROR: disk full", "a@b.c", "Mon", "false", "text">>,
   <<"a<", "<b>", "", "TRUE", "x>>>", "extra">>}

RecordReplies ==
  {[Text(Encode(recs, tr)) EXCEPT !.recs = recs] :
     recs \in SeqsUpTo(SampleRecords, MaxRecords), tr \in BOOLEAN}

\* a reply that carries one record more than MAX_EMAILS
OverLimitRecords == [i \in 1..(MAX_EMAILS + 1) |-> <<"s", "f", "d", "true">>]

OverLimitReply == [Text(Encode(OverLimitRecords, TRUE)) EXCEPT !.recs = OverLimitRecords]

Payloads == {"", "boom", "Message archived", "ERROR:x"}

CommonReplies ==
  {Raise("Mail got an error: Not authorized to send Apple events to Mail. (-1743)"),
   Other, Text(""), Text("garbage"), List(<<>>)}

SentinelReplies ==
  {Text("SUCCESS:" \o p) : p \in Payloads} \cup {Text("ERROR:" \o p) : p \in Payloads}
  \cup {Text("SUCCESS"), Text("success:x"), Text(" SUCCESS:x"), Text("NOREPLYFOUND"),
        Text("REPLIED:Monday"), Text("REPLIED:"), List(<<Item("SUCCESS:x")>>)}

NameItems == {Item("INBOX"), Item(" Sent"), Item(""), NonText}

NameReplies ==
  {List(xs) : xs \in SeqsUpTo(NameItems, MaxNames)}
  \cup {Text(Join(xs, ",")) : xs \in SeqsUpTo({"INBOX", " Sent", ""}, MaxNames)}

\* the answers the interpreter may give to the script of call a
Replies(a) ==
  CASE a.op \in {"getUnreadMails", "searchMails"} -> CommonReplies \cup {Text("SUCCESS:3")}
    [] a.op = "sendMail" ->
         CommonReplies \cup {Text("SUCCESS"), Text("SUCCESS:"), Text("success"), Text("ERROR:boom")}
    [] a.op \in {"getMailboxes", "getAccounts", "getMailboxesForAccount"} ->
         CommonReplies \cup NameReplies
    [] a.op = "getLatestMails" ->
         CommonReplies \cup RecordReplies \cup {OverLimitReply, Text("ERROR:boom")}
    [] a.op \in OutcomeOps \cup {"checkIfReplied"} -> CommonReplies \cup SentinelReplies
    [] OTHER -> {}

(***************************************************************************)
(* Spec: one caller that makes its calls one after the other               *)
(***************************************************************************)
Next ==
  \/ \E a \in CallInputs : Call(1, a)
  \/ \E probeOk \in BOOLEAN, t \in Times, fsOk \in BOOLEAN : ProbeReturn(1, probeOk, t, fsOk)
  \/ \E o \in Replies(call[1]), t \in Times : ScriptReturn(1, o, t)
  \/ Return(1)

Spec == Init /\ [][Next]_vars

(***************************************************************************)
(* Properties                                                              *)
(***************************************************************************)
\* call c is a finished call of operation o
Finished(c, o) == pc[c] = "done" /\ call[c].op = o

\* C1: for every sendMail call that creates its temporary body file, the
\* file no longer exists when the call completes, on every exit path (reply
\* "SUCCESS", any other reply, the interpreter raising).
C1_BodyFileGone ==
  \A c \in CallIds :
    (Finished(c, "sendMail") /\ tmpFile[c] # "") => ~Exists(files, tmpFile[c])

\* C2 as stated: searchMails with an empty or white-space-only term, and
\* getMailboxesForAccount with an empty or white-space-only account name,
\* return an empty list with zero calls made to the interpreter.
BlankQuery(c) ==
  \/ call[c].op = "searchMails" /\ Blank(call[c].searchTerm)
  \/ call[c].op = "getMailboxesForAccount" /\ Blank(call[c].account)

C2_NoInvocation ==
  \A c \in CallIds :
    BlankQuery(c) =>
      /\ invoked[c] = <<>>
      /\ pc[c] = "done" => result[c] = ReturnList(<<>>)

\* C2 as amended: such a call returns an empty list and the only call it
\* makes to the interpreter is the access probe; its own script is never
\* handed over.
C2_OnlyProbeInvoked ==
  \A c \in CallIds :
    BlankQuery(c) =>
      /\ invoked[c] = <<"checkMailAccess">>
      /\ pc[c] \in {"probe", "done"}
      /\ pc[c] = "done" => result[c] = ReturnList(<<>>)

C2_Witness ==
  /\ Finished(1, "searchMails") /\ call[1].searchTerm = "  " /\ access[1] = "granted"
  /\ result[1] = ReturnList(<<>>)

\* C3 as stated: sendMail with to, subject or body empty or white-space-only
\* rejects without any call to the interpreter and without a temporary file.
BlankMail(c) ==
  /\ call[c].op = "sendMail"
  /\ Blank(call[c].to) \/ Blank(call[c].subject) \/ Blank(call[c].body)

C3_RejectsUninvoked ==
  \A c \in CallIds :
    BlankMail(c) =>
      /\ invoked[c] = <<>>
      /\ tmpFile[c] = ""
      /\ pc[c] = "done" => result[c].kind = "reject"

\* C3 as amended: such a call rejects; the only call it makes to the
\* interpreter is the access probe (the send script is never handed over)
\* and it creates no temporary file.
C3_RejectsBeforeSend ==
  \A c \in CallIds :
    BlankMail(c) =>
      /\ invoked[c] = <<"checkMailAccess">>
      /\ pc[c] \in {"probe", "done"}
      /\ tmpFile[c] = ""
      /\ pc[c] = "done" => result[c].kind = "reject"

C3_Witness ==
  /\ Finished(1, "sendMail") /\ access[1] = "granted"
  /\ ~Blank(call[1].to) /\ call[1].subject = " " /\ ~Blank(call[1].body)
  /\ result[1] = Reject("Error sending email: Subject is required")

\* C4 as stated: every public operation makes at most one call to the
\* interpreter per call of the operation, and sendMail with valid non-empty
\* arguments makes exactly one.
C4_OneInvocation ==
  \A c \in CallIds :
    /\ Len(invoked[c]) <= 1
    /\ (Finished(c, "sendMail") /\ ~BlankMail(c)) => Len(invoked[c]) = 1

\* C4 as amended: every public operation makes exactly one access-probe
\* call and after it at most one call for its own script, so at most two
\* calls to the interpreter; sendMail with valid non-empty arguments makes
\* exactly two (the probe, then the send script) when the probe succeeds and
\* the body file is written, and exactly one (the probe) otherwise.
C4_ProbeThenOwnScript ==
  \A c \in CallIds :
    /\ pc[c] = "idle" => invoked[c] = <<>>
    /\ pc[c] = "probe" => invoked[c] = <<"checkMailAccess">>
    /\ pc[c] = "script" => invoked[c] = <<"checkMailAccess", call[c].op>>
    /\ pc[c] = "done" =>
         invoked[c] \in {<<"checkMailAccess">>, <<"checkMailAccess", call[c].op>>}
    /\ (Finished(c, "sendMail") /\ ~BlankMail(c)) =>
         invoked[c] = IF probe[c] = "ok" /\ tmpFile[c] # ""
                      THEN <<"checkMailAccess", "sendMail">>
                      ELSE <<"checkMailAccess">>

C4_Witness ==
  /\ Finished(1, "sendMail") /\ ~BlankMail(1) /\ result[1].kind = "return"
  /\ invoked[1] = <<"checkMailAccess", "sendMail">>

\* what an operation hands back when access is denied
DeniedResult(c) ==
  LET o == call[c].op
      r == result[c]
  IN  /\ o \in ListOps => r = ReturnList(<<>>)
      /\ o \in OutcomeOps => r.kind = "return" /\ ~r.success /\ Includes(r.message, REMEDIATION)
      /\ o = "checkIfReplied" => r.kind = "return" /\ ~r.replied /\ Includes(r.message, REMEDIATION)
      /\ o = "sendMail" => r.kind = "reject" /\ Includes(r.message, REMEDIATION)

\* C5: every public operation runs the access check before anything else;
\* when the probe fails the operation's own script is never handed to the
\* interpreter, list operations return an empty list, archiveEmail,
\* deleteEmail, markAsRead and checkIfReplied return a false outcome whose
\* message contains the remediation text, and sendMail rejects with an error
\* containing it; the access result is that of the call's own probe,
\* whatever the probe of the call before did.
C5_AccessGate ==
  \A c \in CallIds :
    /\ invoked[c] # <<>> => invoked[c][1] = "checkMailAccess"
    /\ pc[c] = "probe" => tmpFile[c] = "" /\ result[c] = NoResult /\ Len(invoked[c]) = 1
    /\ probe[c] = "raised" <=> access[c] = "denied"
    /\ probe[c] = "ok" <=> access[c] = "granted"
    /\ pc[c] \in {"script", "done"} => probe[c] # "pending"
    /\ access[c] = "denied" =>
         /\ pc[c] = "done"
         /\ invoked[c] = <<"checkMailAccess">>
         /\ tmpFile[c] = ""
         /\ DeniedResult(c)

C5_Witness ==
  /\ Finished(1, "archiveEmail") /\ probe[1] = "raised" /\ ~prevDenied
  /\ result[1] = ReturnOutcome(FALSE, "Error archiving email: " \o REMEDIATION)

\* replies no operation documents
UnexpectedTexts == {"garbage", "", "SUCCESS", "success:x", " SUCCESS:x"}

\* call c met a failure: access denied, the interpreter raising, a reply of
\* the wrong type, or a text the operation does not expect
Failure(c) ==
  LET o == call[c].op
      r == reply[c]
  IN  \/ access[c] = "denied"
      \/ r.kind \in {"raise", "other"}
      \/ r.kind = "list" /\ o \notin {"getMailboxes", "getAccounts", "getMailboxesForAccount"}
      \/ r.kind = "text" /\ r.text \in UnexpectedTexts /\ o \notin {"getMailboxes", "getAccounts"}

\* C6: no public operation other than sendMail ever rejects, for any
\* arguments and any interpreter behaviour; on a failure the list operations
\* return an empty list and archiveEmail, deleteEmail, markAsRead and
\* checkIfReplied return a result with the boolean false and a message.
C6_NeverRejects ==
  \A c \in CallIds :
    (pc[c] = "done" /\ call[c].op # "sendMail") =>
      /\ result[c].kind = "return"
      /\ Failure(c) =>
           /\ call[c].op \in ListOps => result[c] = ReturnList(<<>>)
           /\ call[c].op \in OutcomeOps => ~result[c].success /\ result[c].message # ""
           /\ call[c].op = "checkIfReplied" =>
                ~result[c].replied /\ result[c].message # "" /\ result[c].replySentAt = <<>>

C6_Witness ==
  /\ Finished(1, "getLatestMails") /\ access[1] = "granted" /\ reply[1].kind = "raise"
  /\ result[1] = ReturnList(<<>>)

\* C7: sendMail returns normally if and only if the interpreter's reply is
\* exactly "SUCCESS", and then the returned text contains the to and subject
\* arguments verbatim; for every other outcome it rejects with an error.
C7_SendMailOutcome ==
  \A c \in CallIds :
    call[c].op = "sendMail" =>
      /\ pc[c] # "done" => result[c].kind = "none"
      /\ pc[c] = "done" =>
           /\ result[c].kind \in {"return", "reject"}
           /\ result[c].kind = "return" <=> reply[c] = Text("SUCCESS")
           /\ result[c].kind = "return" =>
                Includes(result[c].text, call[c].to) /\ Includes(result[c].text, call[c].subject)
           /\ result[c].kind = "reject" => StartsWith(result[c].message, "Error sending email: ")

C7_Witness ==
  /\ Finished(1, "sendMail") /\ reply[1] = Text("SUCCESS")
  /\ call[1].to = "a@b.c" /\ call[1].subject = "a\""
  /\ result[1] = ReturnText("Email sent to a@b.c with subject \"a\"\"")

\* C8: for archiveEmail, deleteEmail and markAsRead with access granted, a
\* reply "SUCCESS:" + p yields {success: true, message: p}, a reply
\* "ERROR:" + m yields {success: false, message: m}, and any other reply
\* (other text or a non-text value) yields {success: false, message:
\* "Unknown response from Mail"}.
C8_OutcomeReplies ==
  \A c \in CallIds :
    (pc[c] = "done" /\ call[c].op \in OutcomeOps /\ access[c] = "granted"
       /\ reply[c].kind # "raise") =>
      /\ \A p \in Payloads :
           /\ reply[c] = Text("SUCCESS:" \o p) => result[c] = ReturnOutcome(TRUE, p)
           /\ reply[c] = Text("ERROR:" \o p) => result[c] = ReturnOutcome(FALSE, p)
      /\ (\/ reply[c].kind # "text"
          \/ ~StartsWith(reply[c].text, "SUCCESS:") /\ ~StartsWith(reply[c].text, "ERROR:")) =>
           result[c] = ReturnOutcome(FALSE, "Unknown response from Mail")

C8_Witness ==
  /\ Finished(1, "archiveEmail") /\ reply[1] = Text("ERROR:boom")
  /\ result[1] = ReturnOutcome(FALSE, "boom")

\* a record the parser is to accept
Complete(rec) == Len(rec) >= 4

\* messages ms are the records recs of at least 4 fields, in order, with the
\* placeholders for empty fields, read at clock reading t for account
MessagesOf(ms, recs, account, t) ==
  LET kept == SelectSeq(recs, Complete)
  IN  /\ Len(ms) = Len(kept)
      /\ \A i \in 1..Len(kept) :
           /\ ms[i].subject = (IF kept[i][1] = "" THEN "No subject" ELSE kept[i][1])
           /\ ms[i].sender = (IF kept[i][2] = "" THEN "Unknown sender" ELSE kept[i][2])
           /\ ms[i].dateSent = (IF kept[i][3] = "" THEN DateString(t) ELSE kept[i][3])
           /\ ms[i].content = (IF Len(kept[i]) >= 5 /\ kept[i][5] # "" THEN kept[i][5]
                               ELSE "[Content not available]")
           /\ ms[i].mailbox = account \o " - INBOX"

\* call c is a finished getLatestMails call whose script was answered by the
\* text that encodes the records reply[c].recs
AnsweredRecords(c) ==
  /\ Finished(c, "getLatestMails")
  /\ reply[c].kind = "text"
  /\ reply[c].text \in {Encode(reply[c].recs, TRUE), Encode(reply[c].recs, FALSE)}

\* C9: getLatestMails parses a text reply by splitting on the record
\* delimiter, discarding empty fragments, then splitting each record on the
\* field delimiter: the output has exactly one EmailMessage, in reply order,
\* for each record with at least 4 fields, every record with fewer is
\* dropped, an empty subject, sender, date or content is replaced by its
\* placeholder, and every result's mailbox is "<account> - INBOX".
C9_ParsesEveryRecord ==
  \A c \in CallIds :
    AnsweredRecords(c) =>
      /\ result[c].kind = "return"
      /\ \E t \in Times : MessagesOf(result[c].list, reply[c].recs, call[c].account, t)

\* The same for the replies that do not start with "ERROR:"; it holds.
ParsesEveryRecordUnlessErrorPrefix ==
  \A c \in CallIds :
    (AnsweredRecords(c) /\ ~StartsWith(reply[c].text, "ERROR:")) =>
      /\ result[c].kind = "return"
      /\ \E t \in Times : MessagesOf(result[c].list, reply[c].recs, call[c].account, t)

\* C10: the list returned by getUnreadMails, searchMails or getLatestMails
\* never has more than MAX_EMAILS entries, for every limit and every reply.
C10_AtMostMaxEmails ==
  \A c \in CallIds :
    (pc[c] = "done" /\ call[c].op \in {"getUnreadMails", "searchMails", "getLatestMails"}) =>
      Len(result[c].list) <= MAX_EMAILS

\* call c has handed its own script to the interpreter
OwnScript(c, o) ==
  /\ call[c].op = o
  /\ pc[c] \in {"script", "done"}
  /\ script[c].name = o

\* C11: for every limit argument, the bound that getUnreadMails, searchMails
\* and getLatestMails interpolate into their script is min(limit, 20): 20
\* for every limit above 20, the limit itself otherwise, so never above 20.
C11_BoundIsMinOfLimit ==
  \A c \in CallIds :
    \A o \in {"getUnreadMails", "searchMails", "getLatestMails"} :
      OwnScript(c, o) =>
        /\ script[c].limit = (IF call[c].limit > 20 THEN 20 ELSE call[c].limit)
        /\ script[c].limit <= 20

\* a script is awaited whose limit argument was above 20 and whose bound is 20
C11_Witness ==
  \E c \in CallIds :
    /\ OwnScript(c, "getLatestMails")
    /\ pc[c] = "script"
    /\ call[c].limit > 20
    /\ script[c].limit = 20

\* Reading s from position i as the inside of a script string literal, where
\* a backslash takes the character after it with it: some double quote is
\* read bare, and so ends the literal.
RECURSIVE BareQuoteFrom(_, _)
BareQuoteFrom(s, i) ==
  IF i > Len(s) THEN FALSE
  ELSE IF CharAt(s, i) = "\\" THEN BareQuoteFrom(s, i + 2)
  ELSE IF CharAt(s, i) = "\"" THEN TRUE
  ELSE BareQuoteFrom(s, i + 1)

BareQuote(s) == BareQuoteFrom(s, 1)

\* C12: whatever free-text argument (search term, subject, sender, account
\* name, to/cc/bcc address) an operation interpolates into its script, over
\* texts that contain double quotes and backslashes, no unescaped double
\* quote reaches the script: the argument never ends the string literal that
\* encloses it.
C12_NoUnescapedQuote ==
  \A c \in CallIds :
    (pc[c] \in {"script", "done"} /\ script[c].name = call[c].op) =>
      \A i \in 1..Len(script[c].lits) : ~BareQuote(script[c].lits[i])

\* C13: the subject pattern of checkIfReplied is the original subject with
\* one leading reply/forward prefix removed: "Re:", "RE:", "Fwd:", "FWD:" in
\* any letter case, with or without white space after the colon, is stripped
\* together with that white space; a subject without a leading prefix is
\* used unchanged, and a prefix that is not at the start stays.  (The
\* pattern is the stripped subject as the script literal escapes it.)
C13_PatternStripsOnePrefix ==
  \A c \in CallIds :
    OwnScript(c, "checkIfReplied") =>
      LET s == call[c].subject
          pattern == script[c].lits[2]
      IN  /\ \A p \in ReplyPrefixes, w \in AfterColon, r \in Rests :
               s = p \o w \o r => pattern = EscapeBackslashes(EscapeQuotes(r))
          /\ s \in Unprefixed \cup Texts => pattern = EscapeBackslashes(EscapeQuotes(s))

\* the script for "Re: Project update" is awaited with pattern "Project update"
C13_Witness ==
  \E c \in CallIds :
    /\ OwnScript(c, "checkIfReplied")
    /\ pc[c] = "script"
    /\ call[c].subject = "Re: Project update"
    /\ script[c].lits[2] = "Project update"

\* names without surrounding white space or commas, and the empty entry
PlainNames == {"INBOX", ""}

\* C14: getMailboxes, getAccounts and getMailboxesForAccount accept both
\* reply shapes: a native list reply yields its non-empty text entries, a
\* comma-joined text reply yields its parts split on commas, trimmed, the
\* empty ones removed; both shapes of the same names give the same list.
C14_BothReplyShapes ==
  \A c \in CallIds :
    \A o \in {"getMailboxes", "getAccounts", "getMailboxesForAccount"} :
      (Finished(c, o) /\ OwnScript(c, o)) =>
        /\ reply[c].kind = "list" => result[c] = ReturnList(NamesOf(reply[c].items))
        /\ reply[c].kind = "text" =>
             /\ result[c] = ReturnList(FilterBoolean(MapTrim(Split(reply[c].text, ","))))
             /\ \A xs \in SeqsUpTo(PlainNames, MaxNames) :
                  reply[c].text = Join(xs, ",") =>
                    result[c] = ReturnList(NamesOf([i \in 1..Len(xs) |-> Item(xs[i])]))

(***************************************************************************)
(* SpecOverlap: two callers of sendMail whose calls may overlap            *)
(***************************************************************************)
\* two mails that differ in their body
OverlapInputs == {[ValidMail EXCEPT !.body = b] : b \in {"first", "second\n"}}

OverlapReplies ==
  {Raise("Mail got an error: Connection is invalid. (-609)"), Text("SUCCESS"), Text("ERROR:boom")}

NextOverlap ==
  \/ \E c \in CallIds, a \in OverlapInputs : Call(c, a)
  \/ \E c \in CallIds, probeOk \in BOOLEAN, t \in Times, fsOk \in BOOLEAN :
       ProbeReturn(c, probeOk, t, fsOk)
  \/ \E c \in CallIds, o \in OverlapReplies, t \in Times : ScriptReturn(c, o, t)
  \/ \E c \in CallIds : Return(c)

SpecOverlap == Init /\ [][NextOverlap]_vars

\* the interpreter is running the sendMail script of call c
Sending(c) == call[c].op = "sendMail" /\ pc[c] = "script"

\* C15: when two sendMail calls overlap, each uses its own temporary body
\* file: while the interpreter is running a call's script, the call's body
\* file exists and holds that call's body, and no other call whose script
\* is running has the same file; no interleaving overwrites or deletes it
\* before the invocation has finished.
C15_OwnBodyFile ==
  \A c \in CallIds :
    Sending(c) =>
      /\ [name |-> tmpFile[c], content |-> Trim(call[c].body)] \in files
      /\ \A d \in CallIds \ {c} : Sending(d) => tmpFile[d] # tmpFile[c]

====
